---- MODULE Spec2Model ----
(***************************************************************************)
(* The Windows registration shim of flutter_local_llm:                     *)
(*                                                                         *)
(*   void FlutterLocalLlmPluginCApiRegisterWithRegistrar(                  *)
(*       FlutterDesktopPluginRegistrarRef registrar) {                     *)
(*     flutter_local_llm::FlutterLocalLlmPlugin::RegisterWithRegistrar(    *)
(*         flutter::PluginRegistrarManager::GetInstance()                  *)
(*             ->GetRegistrar<flutter::PluginRegistrarWindows>(registrar));*)
(*   }                                                                     *)
(*                                                                         *)
(* One invocation is a sequence of steps, in the order C++ evaluates the   *)
(* full expression: the parameter is bound, GetInstance() is evaluated,    *)
(* GetRegistrar<T>(registrar) is evaluated on its result, the plugin's     *)
(* static RegisterWithRegistrar is called with that value, it returns, and *)
(* the entry point returns.  The host calls the entry point on one thread, *)
(* so at most one invocation is in progress.                               *)
(*                                                                         *)
(* The registrar manager and the plugin class are not part of the file;    *)
(* they are modelled from the specification: the manager obtains or        *)
(* creates one typed wrapper per handle, the plugin attaches itself to the *)
(* registrar it is given.                                                  *)
(***************************************************************************)
EXTENDS Naturals, Integers, Sequences, FiniteSets, TLC

\* Number of distinct registrar handles the host owns.
NumHandles == 3

\* Number of times the host invokes the entry point in one run.
MaxInvocations == 4

\* An opaque FlutterDesktopPluginRegistrarRef supplied by the host.
Handle(i) == <<"registrar_ref", i>>

Handles == { Handle(i) : i \in 1..NumHandles }

\* The parameter when no invocation is in progress.
NoHandle == << >>

\* The k-th flutter::PluginRegistrarWindows the manager has created.
Wrapper(k) == <<"PluginRegistrarWindows", k>>

\* The temporary of the argument expression before it is evaluated.
NoWrapper == << >>

VARIABLES
    pc,            \* position of the invocation in progress, "idle" if none
    registrar,     \* the parameter of the invocation in progress
    typed,         \* the value of the argument expression (the T* temporary)
    registrars_,   \* PluginRegistrarManager: handle -> typed wrapper
    attached,      \* wrappers the plugin has attached itself to
    invocations,   \* history: the handle of every invocation, in order
    lookups,       \* history: every GetRegistrar call the shim has made
    calls,         \* history: every RegisterWithRegistrar call the shim has made
    pluginReturns, \* history: how many RegisterWithRegistrar calls have returned
    returns        \* history: how many invocations have returned to the host

vars == <<pc, registrar, typed, registrars_, attached, invocations, lookups,
          calls, pluginReturns, returns>>

\* ---------------------------------------------------------------------------
\* The registrar manager (flutter::PluginRegistrarManager), from the
\* specification: "obtain (or create) the strongly-typed registrar wrapper".

\* The entries after GetRegistrar<T>(h): an entry for h is created when there
\* is none, with a wrapper no other handle has.
Emplace(m, h) ==
    IF h \in DOMAIN m
    THEN m
    ELSE [x \in DOMAIN m \cup {h} |->
            IF x = h THEN Wrapper(Cardinality(DOMAIN m) + 1) ELSE m[x]]

\* The value GetRegistrar<T>(h) returns: the wrapper of h's entry.
GetRegistrar(m, h) == Emplace(m, h)[h]

\* ---------------------------------------------------------------------------
\* The entry point, step by step.

Init ==
    /\ pc = "idle"
    /\ registrar = NoHandle
    /\ typed = NoWrapper
    /\ registrars_ = << >>
    /\ attached = {}
    /\ invocations = << >>
    /\ lookups = << >>
    /\ calls = << >>
    /\ pluginReturns = 0
    /\ returns = 0

\* The host's plugin loader calls the entry point with a valid handle h.
FlutterLocalLlmPluginCApiRegisterWithRegistrar(h) ==
    /\ pc = "idle"
    /\ Len(invocations) < MaxInvocations
    /\ pc' = "entry"
    /\ registrar' = h
    /\ invocations' = Append(invocations, h)
    /\ UNCHANGED <<typed, registrars_, attached, lookups, calls,
                   pluginReturns, returns>>

\* flutter::PluginRegistrarManager::GetInstance(): the manager singleton.
GetInstance ==
    /\ pc = "entry"
    /\ pc' = "manager"
    /\ UNCHANGED <<registrar, typed, registrars_, attached, invocations,
                   lookups, calls, pluginReturns, returns>>

\* A shim that looks up some other handle than its parameter.
ResolveRegistrarOtherHandle ==
    /\ pc = "manager"
    /\ \E h \in Handles \ {registrar} :
          /\ typed' = GetRegistrar(registrars_, h)
          /\ registrars_' = Emplace(registrars_, h)
          /\ lookups' = Append(lookups, [inv |-> Len(invocations), h |-> h,
                                         result |-> GetRegistrar(registrars_, h)])
    /\ pc' = "resolved"
    /\ UNCHANGED <<registrar, attached, invocations, calls, pluginReturns,
                   returns>>

\* A shim that checks the handle first and reports instead of looking it up.
ResolveRegistrarValidating ==
    /\ pc = "manager"
    /\ IF registrar \in DOMAIN registrars_
       THEN /\ pc' = "error"
            /\ UNCHANGED <<typed, registrars_, lookups>>
       ELSE /\ typed' = GetRegistrar(registrars_, registrar)
            /\ registrars_' = Emplace(registrars_, registrar)
            /\ lookups' = Append(lookups, [inv |-> Len(invocations),
                                           h |-> registrar,
                                           result |-> GetRegistrar(registrars_, registrar)])
            /\ pc' = "resolved"
    /\ UNCHANGED <<registrar, attached, invocations, calls, pluginReturns,
                   returns>>

\* ->GetRegistrar<flutter::PluginRegistrarWindows>(registrar): the argument
\* of the plugin call is evaluated, with the parameter as it was received.
ResolveRegistrar ==
    /\ pc = "manager"
    /\ typed' = GetRegistrar(registrars_, registrar)
    /\ registrars_' = Emplace(registrars_, registrar)
    /\ lookups' = Append(lookups, [inv |-> Len(invocations), h |-> registrar,
                                   result |-> GetRegistrar(registrars_, registrar)])
    /\ pc' = "resolved"
    /\ UNCHANGED <<registrar, attached, invocations, calls, pluginReturns,
                   returns>>

\* A shim that returns without forwarding to the plugin.
CallPluginSkipped ==
    /\ pc = "resolved"
    /\ pc' = "attached"
    /\ UNCHANGED <<registrar, typed, registrars_, attached, invocations,
                   lookups, calls, pluginReturns, returns>>

\* A shim that enters the plugin before the argument has been evaluated.
CallPluginEarly ==
    /\ pc \in {"entry", "manager", "resolved"}
    /\ pc' = "inPlugin"
    /\ calls' = Append(calls, [inv |-> Len(invocations), h |-> registrar,
                               arg |-> typed])
    /\ UNCHANGED <<registrar, typed, registrars_, attached, invocations,
                   lookups, pluginReturns, returns>>

\* A shim that forwards some registrar the manager holds, not its temporary.
CallPluginAnyRegistrar ==
    /\ pc = "resolved"
    /\ pc' = "inPlugin"
    /\ \E h \in DOMAIN registrars_ :
          calls' = Append(calls, [inv |-> Len(invocations), h |-> registrar,
                                  arg |-> registrars_[h]])
    /\ UNCHANGED <<registrar, typed, registrars_, attached, invocations,
                   lookups, pluginReturns, returns>>

\* A shim that keeps an "already registered" flag and forwards only once.
CallPluginOnce ==
    /\ pc = "resolved"
    /\ IF typed \in attached
       THEN /\ pc' = "attached"
            /\ UNCHANGED calls
       ELSE /\ pc' = "inPlugin"
            /\ calls' = Append(calls, [inv |-> Len(invocations),
                                       h |-> registrar, arg |-> typed])
    /\ UNCHANGED <<registrar, typed, registrars_, attached, invocations,
                   lookups, pluginReturns, returns>>

\* FlutterLocalLlmPlugin::RegisterWithRegistrar(...) is called with the value
\* of the argument expression.
CallPlugin ==
    /\ pc = "resolved"
    /\ pc' = "inPlugin"
    /\ calls' = Append(calls, [inv |-> Len(invocations), h |-> registrar,
                               arg |-> typed])
    /\ UNCHANGED <<registrar, typed, registrars_, attached, invocations,
                   lookups, pluginReturns, returns>>

\* The plugin's registration routine, from the specification: the plugin
\* attaches itself to the registrar it was given, and returns.
RegisterWithRegistrar ==
    /\ pc = "inPlugin"
    /\ attached' = attached \cup {calls[Len(calls)].arg}
    /\ pluginReturns' = pluginReturns + 1
    /\ pc' = "attached"
    /\ UNCHANGED <<registrar, typed, registrars_, invocations, lookups, calls,
                   returns>>

\* A shim that hands the plugin call to deferred work and returns at once.
ReturnDeferred ==
    /\ pc \in {"inPlugin", "attached"}
    /\ pc' = "idle"
    /\ registrar' = NoHandle
    /\ typed' = NoWrapper
    /\ returns' = returns + 1
    /\ UNCHANGED <<registrars_, attached, invocations, lookups, calls,
                   pluginReturns>>

\* The closing brace: the void function returns to the host; the parameter
\* and the temporary go out of scope.
Return ==
    /\ pc = "attached"
    /\ pc' = "idle"
    /\ registrar' = NoHandle
    /\ typed' = NoWrapper
    /\ returns' = returns + 1
    /\ UNCHANGED <<registrars_, attached, invocations, lookups, calls,
                   pluginReturns>>

Next ==
    \/ \E h \in Handles : FlutterLocalLlmPluginCApiRegisterWithRegistrar(h)
    \/ GetInstance
    \/ ResolveRegistrar
    \/ CallPlugin
    \/ RegisterWithRegistrar
    \/ Return

Spec == Init /\ [][Next]_vars

\* The call is synchronous C++ on the host's thread: an invocation that has
\* started runs each of its steps; nothing obliges the host to call again.
FairSpec ==
    /\ Spec
    /\ WF_vars(GetInstance)
    /\ WF_vars(ResolveRegistrar)
    /\ WF_vars(CallPlugin)
    /\ WF_vars(RegisterWithRegistrar)
    /\ WF_vars(Return)

\* ---------------------------------------------------------------------------
\* Properties.

\* The positions of an invocation; there is no error or reporting position.
ShimPositions == {"idle", "entry", "manager", "resolved", "inPlugin", "attached"}

\* The RegisterWithRegistrar calls made by the k-th invocation.
CallsOf(k) == { i \in DOMAIN calls : calls[i].inv = k }

\* The RegisterWithRegistrar calls made by invocations with handle h.
CallsWith(h) == { i \in DOMAIN calls : calls[i].h = h }

\* The invocations the host has made with handle h.
InvocationsWith(h) == { k \in DOMAIN invocations : invocations[k] = h }

\* The k-th invocation is past its plugin call.
PastPluginCall(k) ==
    \/ k <= returns
    \/ k = Len(invocations) /\ pc = "attached"

\* C1: one invocation with handle h calls the plugin's RegisterWithRegistrar
\* exactly once (never more at any point, exactly once when the call is
\* behind it), and the argument is the typed registrar the manager holds for
\* h, which is the registrar of no other handle.
C1_ForwardsResolvedRegistrarOnce ==
    \A k \in DOMAIN invocations :
       /\ Cardinality(CallsOf(k)) <= 1
       /\ PastPluginCall(k) =>
             /\ Cardinality(CallsOf(k)) = 1
             /\ invocations[k] \in DOMAIN registrars_
             /\ \A i \in CallsOf(k) :
                   /\ calls[i].arg = registrars_[invocations[k]]
                   /\ \A h2 \in DOMAIN registrars_ \ {invocations[k]} :
                         registrars_[h2] # calls[i].arg

\* Two invocations with two different handles have returned.
C1_Witness ==
    /\ pc = "idle"
    /\ returns = 2
    /\ invocations[1] # invocations[2]

\* C2: once an invocation with handle h has started, eventually the plugin
\* is attached to the registrar of h, and it stays attached.
C2_EventuallyAttachedForGood ==
    \A h \in Handles :
       (pc # "idle" /\ registrar = h)
          ~> [](h \in DOMAIN registrars_ /\ registrars_[h] \in attached)

\* The plugin is attached to the registrars of two handles.
C2_Witness ==
    /\ Cardinality(attached) = 2
    /\ \A h \in DOMAIN registrars_ : registrars_[h] \in attached

\* C3 as stated: the entry point leaves the registrar manager's set of
\* handle-to-wrapper entries unchanged.
C3_ManagerEntriesUnchanged == [][registrars_' = registrars_]_vars

\* C3 as amended: the shim keeps no state of its own (its parameter and its
\* temporary are gone when it returns), and besides the plugin's attachment
\* the entry point changes only the manager's entries, and these only by
\* adding, in the lookup of an invocation whose handle has no entry yet, one
\* entry for that handle; entries that exist are neither changed nor removed.
C3_OnlyAddsEntryForNewHandle ==
    [][ /\ registrars_' # registrars_ =>
              /\ pc = "manager"
              /\ registrar \notin DOMAIN registrars_
              /\ DOMAIN registrars_' = DOMAIN registrars_ \cup {registrar}
              /\ \A h \in DOMAIN registrars_ : registrars_'[h] = registrars_[h]
        /\ attached' # attached =>
              /\ pc = "inPlugin"
              /\ attached' = attached \cup {registrars_[registrar]}
        /\ pc' = "idle" => registrar' = NoHandle /\ typed' = NoWrapper
      ]_vars

\* Three lookups have been made and the manager holds two entries: a lookup
\* created an entry and a lookup found one.
C3_Witness ==
    /\ Len(lookups) = 3
    /\ Cardinality(DOMAIN registrars_) = 2

\* C4: the entry point has no error path: an invocation is only ever at one
\* of the positions of the straight-line code, every invocation that starts
\* returns to the host, and the step after GetInstance is always the lookup
\* with the handle as received, whatever the handle is.
C4_NoErrorPath ==
    /\ [](pc \in ShimPositions)
    /\ [][pc = "entry" => pc' = "manager"]_vars
    /\ [][pc = "manager" =>
             /\ pc' = "resolved"
             /\ Len(lookups') = Len(lookups) + 1
             /\ lookups'[Len(lookups')].h = registrar]_vars
    /\ \A k \in 1..MaxInvocations :
          (Len(invocations) = k /\ pc = "entry") ~> (pc = "idle" /\ returns = k)

\* Every invocation the host makes in the run has returned.
C4_Witness ==
    /\ pc = "idle"
    /\ returns = MaxInvocations

\* C5: within one invocation the lookup is made after the handle has been
\* received and before any plugin call of that invocation, and the plugin's
\* routine is entered only when the lookup of that invocation has completed,
\* with the value that lookup returned.
C5_LookupBeforePluginCall ==
    [][ /\ Len(lookups') > Len(lookups) =>
              /\ pc = "manager"
              /\ registrar = invocations[Len(invocations)]
              /\ Len(lookups) = Len(invocations) - 1
              /\ CallsOf(Len(invocations)) = {}
        /\ Len(calls') > Len(calls) =>
              /\ pc = "resolved"
              /\ Len(lookups) = Len(invocations)
              /\ lookups[Len(lookups)].inv = Len(invocations)
              /\ lookups[Len(lookups)].h = registrar
              /\ calls'[Len(calls')].arg = lookups[Len(lookups)].result
      ]_vars

\* The plugin's routine has been entered for the second time.
C5_Witness ==
    /\ pc = "inPlugin"
    /\ Len(calls) = 2

\* C6: when the entry point has returned to the host, the plugin call of
\* every invocation has returned, nothing of the invocation is left to run,
\* and the shim holds nothing: its parameter and temporary are gone.
C6_SynchronousCall ==
    /\ returns <= pluginReturns
    /\ pc # "inPlugin" => pluginReturns = Len(calls)
    /\ pc = "idle" =>
          /\ returns = Len(invocations)
          /\ Len(calls) = Len(invocations)
          /\ pluginReturns = Len(calls)
          /\ registrar = NoHandle
          /\ typed = NoWrapper

\* The first invocation has returned to the host.
C6_Witness ==
    /\ pc = "idle"
    /\ returns = 1
    /\ pluginReturns = 1

\* C7: invocations with the same handle forward the same typed registrar,
\* invocations with different handles forward different ones, and every
\* lookup of a handle returns the wrapper created by the first.
C7_PerHandleSingleton ==
    /\ \A i, j \in DOMAIN calls :
          (calls[i].h = calls[j].h) <=> (calls[i].arg = calls[j].arg)
    /\ \A i, j \in DOMAIN lookups :
          (lookups[i].h = lookups[j].h) <=> (lookups[i].result = lookups[j].result)
    /\ Cardinality({ lookups[i].result : i \in DOMAIN lookups })
          = Cardinality(DOMAIN registrars_)

\* Two calls with one handle and a third with another have been forwarded.
C7_Witness ==
    /\ Len(calls) >= 3
    /\ calls[1].h = calls[2].h
    /\ calls[3].h # calls[1].h

\* C8: the shim forwards unconditionally: when the host has invoked the
\* entry point n times with a handle, the plugin's RegisterWithRegistrar has
\* been called n times for it.
C8_ForwardsEveryInvocation ==
    /\ \A h \in Handles :
          Cardinality(CallsWith(h)) <= Cardinality(InvocationsWith(h))
    /\ pc = "idle" =>
          \A h \in Handles :
             Cardinality(CallsWith(h)) = Cardinality(InvocationsWith(h))

\* The host has invoked the entry point three times with the same handle.
C8_Witness ==
    /\ pc = "idle"
    /\ \E h \in Handles : Cardinality(InvocationsWith(h)) = 3

====
